---- MODULE Spec2Model ----
(***************************************************************************)
(* EnvWrap (src/main.py): named, persistent sets of filesystem paths and   *)
(* the activation engine that switches the search path between them.       *)
(*                                                                         *)
(* The state is the on-disk registry (one record file per environment and  *)
(* the active-pointer file) together with the PATH variable of the         *)
(* process the commands run in.  Every command handler is one action.      *)
(*                                                                         *)
(* Strings are sequences of tokens.  A path is a non-empty sequence of     *)
(* path segments, the PATH variable is one string in which the token SEP   *)
(* separates the entries; it is split and joined as the code does it.      *)
(* Path segments never contain the separator.                              *)
(***************************************************************************)
EXTENDS Integers, Sequences, FiniteSets, TLC

VARIABLES
    files,      \* ENV_BASE_DIR/<name>.json : name -> file content
    config,     \* CONFIG_FILE (.current_env) content
    PATH,       \* os.environ["PATH"], a string
    last,       \* the command that ran last and how it ended
    prev,       \* the command that ran before it
    pre,        \* files, config and PATH as the last command found them
    steps,      \* number of commands run so far
    edits,      \* number of record files edited from outside so far
    activated,  \* an in-process activation has succeeded
    ENVWRAP_CURRENT   \* the shell variable the exported script sets

vars == <<files, config, PATH, last, prev, pre, steps, edits, activated,
          ENVWRAP_CURRENT>>

(***************************************************************************)
(* Bounds and universes                                                    *)
(***************************************************************************)
MaxSteps == 5

\* edits of record files from outside the program
MaxEdits == 1

Names == {"base", "dev", "ci"}

SEP == ":"

PA == <<"/a">>
PB == <<"/b">>
PC == <<"/c">>
PGONE == <<"/gone">>
\* "/bin" starts with the characters of "/b": two tokens, so that a text
\* substitution of ":/b" finds it
PBIN == <<"/b", "in">>
\* "/u/a" ends with the characters of "/a"
PUA == <<"/u", "/a">>

\* what the user may type as a path argument
Inputs == {"/a", "/a/.", "/b", "/c", "/gone"}

\* str(Path(path).resolve()): absolute, normalised form of an input
Resolve(i) ==
    CASE i = "/a" -> PA
      [] i = "/a/." -> PA
      [] i = "/b" -> PB
      [] i = "/c" -> PC
      [] i = "/gone" -> PGONE

\* Path(path).exists()
PathExists(i) == i # "/gone"

(***************************************************************************)
(* Sequences as Python lists                                               *)
(***************************************************************************)
Range(s) == {s[i] : i \in DOMAIN s}

InSeq(x, s) == \E i \in DOMAIN s : s[i] = x

NoDup(s) == \A i, j \in DOMAIN s : s[i] = s[j] => i = j

\* [p for p in s if p not in U]
RECURSIVE FilterOut(_, _)
FilterOut(s, U) ==
    IF s = <<>> THEN <<>>
    ELSE IF Head(s) \in U THEN FilterOut(Tail(s), U)
         ELSE <<Head(s)>> \o FilterOut(Tail(s), U)

\* list.remove(x): drops the first occurrence of x
RECURSIVE ListRemove(_, _)
ListRemove(s, x) ==
    IF s = <<>> THEN <<>>
    ELSE IF Head(s) = x THEN Tail(s)
         ELSE <<Head(s)>> \o ListRemove(Tail(s), x)

\* os.pathsep.join(list)
RECURSIVE Join(_)
Join(l) ==
    IF l = <<>> THEN <<>>
    ELSE IF Len(l) = 1 THEN l[1]
         ELSE l[1] \o <<SEP>> \o Join(Tail(l))

\* str.split(os.pathsep): "" splits into one empty entry
RECURSIVE Split(_)
Split(s) ==
    IF ~InSeq(SEP, s) THEN <<s>>
    ELSE LET i == CHOOSE k \in DOMAIN s :
                      s[k] = SEP /\ \A j \in 1..(k - 1) : s[j] # SEP
         IN <<SubSeq(s, 1, i - 1)>> \o Split(SubSeq(s, i + 1, Len(s)))

(***************************************************************************)
(* Registry store: record files and the active-pointer file                *)
(***************************************************************************)
\* Content of a file that is not the JSON object save() writes:
\*   unreadable  open(.., "r") raises OSError (the file can still be written)
\*   empty       json.load raises JSONDecodeError
\*   garbage     json.load raises JSONDecodeError
\*   list        json.load returns a list
\*   string      json.load returns a str
BadKinds == {"unreadable", "empty", "garbage", "list", "string"}

Absent == [kind |-> "absent", name |-> "", paths |-> <<>>]

\* json.dump({"name": name, "paths": paths})
Rec(n, ps) == [kind |-> "rec", name |-> n, paths |-> ps]

Bad(k) == [kind |-> k, name |-> "", paths |-> <<>>]

\* env_file.exists()
Exists(f) == f.kind # "absent"

\* json.load(f) of the active-pointer file after set_current_env(name)
StrJson(n) == [kind |-> "str", val |-> n]

\* config.get("paths", []) on what json.load returned: a list or a str has
\* no .get, and AttributeError is not among the exceptions caught
GetPathsRaises(f) == f.kind \in {"list", "string"}

\* Env.load: self.env_paths after loading (when load does not raise)
EnvLoadPaths(f) == IF f.kind = "rec" THEN f.paths ELSE <<>>

\* Env.save
EnvSave(fs, n, ps) == [fs EXCEPT ![n] = Rec(n, ps)]

\* Content of the active-pointer file that is not a JSON string:
\*   absent      CONFIG_FILE.exists() is False
\*   unreadable  open(.., "r") raises OSError (the file can still be written)
\*   empty, garbage   json.load raises JSONDecodeError
PtrBadKinds == {"absent", "unreadable", "empty", "garbage"}

BadPtr(k) == [kind |-> k, val |-> ""]

get_current_env_name(c) == IF c.kind = "str" THEN c.val ELSE "base"

set_current_env(n) == StrJson(n)

(***************************************************************************)
(* Outcome of a handler: the state it leaves and how it ended              *)
(*   res  "ok", "Exit1" (typer.Exit(1)) or the uncaught exception          *)
(*   ret  what Env.add_path / Env.remove_path returned                     *)
(*   eff  the writes performed, in order                                   *)
(***************************************************************************)
St(fs, c, p) == [files |-> fs, config |-> c, PATH |-> p]

Out(st, res, ret, eff) ==
    [files |-> st.files, config |-> st.config, PATH |-> st.PATH,
     res |-> res, ret |-> ret, eff |-> eff]

W_ptr(n) == <<"set_current_env", n>>
W_save(n) == <<"save", n>>
W_unlink(n) == <<"unlink", n>>
W_environ == <<"environ", "PATH">>
W_script == <<"write", "export_shell">>

(***************************************************************************)
(* Activation engine                                                       *)
(***************************************************************************)
\* the loop over ENV_BASE_DIR.glob("*.json"): does it raise?
UnionRaises(fs) == \E n \in DOMAIN fs : GetPathsRaises(fs[n])

\* faulty variant: the glob skips base.json, as the listing does
UnionPathSet_skip_base(fs) ==
    UNION {Range(fs[n].paths) :
               n \in {m \in DOMAIN fs : fs[m].kind = "rec" /\ m # "base"}}

\* all_envwrap_paths
UnionPathSet(fs) ==
    UNION {Range(fs[n].paths) : n \in {m \in DOMAIN fs : fs[m].kind = "rec"}}

\* faulty variant: the target's paths are put in front as one block
InsertEach_block(paths, cleaned) == paths \o cleaned

\* faulty variant: the target's paths are never inserted
InsertEach_none(paths, cleaned) == cleaned

\* for path in env.env_paths: if path not in cleaned_path: cleaned_path.insert(0, path)
RECURSIVE InsertEach(_, _)
InsertEach(paths, cleaned) ==
    IF paths = <<>> THEN cleaned
    ELSE InsertEach(Tail(paths),
                    IF InSeq(Head(paths), cleaned) THEN cleaned
                    ELSE <<Head(paths)>> \o cleaned)

\* faulty variant: the target's paths are put in front of a PATH that was not cleaned
NewPATH_nostrip(path, U, env_paths) == Join(env_paths \o Split(path))

\* the in-process channel: the new value of os.environ["PATH"]
NewPATH(path, U, env_paths) ==
    Join(InsertEach(env_paths, FilterOut(Split(path), U)))

\* the orders in which a Python set of paths can be iterated
Orders(S) ==
    {o \in [1..Cardinality(S) -> S] :
         \A i, j \in 1..Cardinality(S) : i # j => o[i] # o[j]}

IsPrefix(pat, s) == Len(pat) <= Len(s) /\ SubSeq(s, 1, Len(pat)) = pat

\* sed "s|pat||g" on one line: every occurrence of the text, left to right
RECURSIVE SedDeleteAll(_, _)
SedDeleteAll(s, pat) ==
    IF Len(s) < Len(pat) THEN s
    ELSE IF IsPrefix(pat, s)
         THEN SedDeleteAll(SubSeq(s, Len(pat) + 1, Len(s)), pat)
         ELSE <<Head(s)>> \o SedDeleteAll(Tail(s), pat)

\* sed -e "s|P:||g" -e "s|:P||g" -e "s|^P$||g"
SedClean(s, path) ==
    LET s1 == SedDeleteAll(s, path \o <<SEP>>)
        s2 == SedDeleteAll(s1, <<SEP>> \o path)
    IN IF s2 = path THEN <<>> ELSE s2

\* the CLEANED_PATH lines of the script, one per path, in the order written
RECURSIVE SedCleanEach(_, _)
SedCleanEach(s, order) ==
    IF order = <<>> THEN s
    ELSE SedCleanEach(SedClean(s, Head(order)), Tail(order))

\* does the text pat occur in s
RECURSIVE Occurs(_, _)
Occurs(pat, s) ==
    IF Len(s) < Len(pat) THEN FALSE
    ELSE IsPrefix(pat, s) \/ Occurs(pat, Tail(s))

\* if [[ ":$PATH:" != *":{path}:"* ]]; then export PATH="{path}:$PATH"; fi
RECURSIVE ShPrependEach(_, _)
ShPrependEach(paths, s) ==
    IF paths = <<>> THEN s
    ELSE ShPrependEach(Tail(paths),
             IF Occurs(<<SEP>> \o Head(paths) \o <<SEP>>, <<SEP>> \o s \o <<SEP>>)
             THEN s
             ELSE Head(paths) \o <<SEP>> \o s)

\* the file written by the export_shell branch: the paths to clean in the
\* order the set was iterated, the paths to add, the marker
ExportScript(order, env_paths, name) ==
    [clean |-> order, add |-> env_paths, marker |-> name]

\* the shell after "source <script>"
Source(script, path) ==
    [PATH |-> ShPrependEach(script.add, SedCleanEach(path, script.clean)),
     ENVWRAP_CURRENT |-> script.marker]

\* values of the export_shell parameter
None == "None"
\* a file name given with --export-shell
ScriptFile == "script"
\* the parameter's default, typer.Option(None, "--export-shell", ...): what a
\* direct Python call activate(name) receives; an object, hence truthy
OptionInfo == "OptionInfo"

\* activate from the union computation on
activate_body(st, name, export_shell) ==
    IF UnionRaises(st.files) THEN Out(st, "AttributeError", FALSE, <<>>)
    ELSE LET U == UnionPathSet(st.files)
             st1 == [st EXCEPT !.config = set_current_env(name)]
             f == st.files[name]
         IN IF GetPathsRaises(f)
            THEN Out(st1, "AttributeError", FALSE, <<W_ptr(name)>>)
            ELSE IF export_shell = OptionInfo
            \* open(export_shell, "w") raises TypeError
            THEN Out(st1, "TypeError", FALSE, <<W_ptr(name)>>)
            ELSE IF export_shell # None
            \* the script is written, os.environ is left alone
            THEN Out(st1, "ok", FALSE, <<W_ptr(name), W_script>>)
            ELSE Out([st1 EXCEPT !.PATH = NewPATH(st.PATH, U, EnvLoadPaths(f))],
                     "ok", FALSE, <<W_ptr(name), W_environ>>)

\* faulty variant: the pointer is written before the existence check
activate_ptrfirst(st, name, export_shell) ==
    IF name # "base" /\ ~Exists(st.files[name])
    THEN Out([st EXCEPT !.config = set_current_env(name)], "Exit1", FALSE,
             <<W_ptr(name)>>)
    ELSE activate_body(st, name, export_shell)

activate_(st, name, export_shell) ==
    IF name # "base" /\ ~Exists(st.files[name]) THEN Out(st, "Exit1", FALSE, <<>>)
    ELSE activate_body(st, name, export_shell)

(***************************************************************************)
(* The other commands                                                      *)
(***************************************************************************)
\* faulty variant: an existing record is overwritten
create_overwrite(st, name) ==
    IF name = "base" THEN Out(st, "Exit1", FALSE, <<>>)
    ELSE IF GetPathsRaises(st.files[name]) THEN Out(st, "AttributeError", FALSE, <<>>)
    ELSE Out([st EXCEPT !.files = EnvSave(st.files, name, <<>>)],
             "ok", FALSE, <<W_save(name)>>)

create_(st, name) ==
    IF name = "base" THEN Out(st, "Exit1", FALSE, <<>>)
    ELSE IF GetPathsRaises(st.files[name]) THEN Out(st, "AttributeError", FALSE, <<>>)
    ELSE IF Exists(st.files[name]) THEN Out(st, "Exit1", FALSE, <<>>)
    ELSE Out([st EXCEPT !.files = EnvSave(st.files, name, <<>>)],
             "ok", FALSE, <<W_save(name)>>)

\* faulty variant: the target is saved without the source's paths
clone_body_empty(st, source, target) ==
    IF GetPathsRaises(st.files[source]) \/ GetPathsRaises(st.files[target])
    THEN Out(st, "AttributeError", FALSE, <<>>)
    ELSE IF ~Exists(st.files[source]) THEN Out(st, "Exit1", FALSE, <<>>)
    ELSE Out([st EXCEPT !.files = EnvSave(st.files, target, <<>>)],
             "ok", FALSE, <<W_save(target)>>)

\* faulty variant: the source's whole config, name included, is written
\* under the target's key
clone_body_keepname(st, source, target) ==
    IF GetPathsRaises(st.files[source]) \/ GetPathsRaises(st.files[target])
    THEN Out(st, "AttributeError", FALSE, <<>>)
    ELSE IF ~Exists(st.files[source]) THEN Out(st, "Exit1", FALSE, <<>>)
    ELSE Out([st EXCEPT !.files =
                  [st.files EXCEPT ![target] =
                       Rec(source, EnvLoadPaths(st.files[source]))]],
             "ok", FALSE, <<W_save(target)>>)

\* clone after the reserved-name check
clone_body(st, source, target) ==
    IF GetPathsRaises(st.files[source]) \/ GetPathsRaises(st.files[target])
    THEN Out(st, "AttributeError", FALSE, <<>>)
    ELSE IF ~Exists(st.files[source]) THEN Out(st, "Exit1", FALSE, <<>>)
    ELSE Out([st EXCEPT !.files =
                  EnvSave(st.files, target, EnvLoadPaths(st.files[source]))],
             "ok", FALSE, <<W_save(target)>>)

\* faulty variant: no reserved-name check
clone_noreserved(st, source, target) == clone_body(st, source, target)

clone_(st, source, target) ==
    IF target = "base" THEN Out(st, "Exit1", FALSE, <<>>)
    ELSE clone_body(st, source, target)

reset_(st) ==
    LET st1 == [st EXCEPT !.config = set_current_env("base")]
    IN IF GetPathsRaises(st.files["base"])
       THEN Out(st1, "AttributeError", FALSE, <<W_ptr("base")>>)
       ELSE Out([st1 EXCEPT !.files = EnvSave(st.files, "base", <<>>)],
                "ok", FALSE, <<W_ptr("base"), W_save("base")>>)

\* faulty variant: no membership check
add_path_nocheck(env_paths, abs_path) ==
    [paths |-> Append(env_paths, abs_path), ret |-> TRUE]

\* Env.add_path: [the new env_paths, the value returned]
add_path(env_paths, abs_path) ==
    IF ~InSeq(abs_path, env_paths)
    THEN [paths |-> Append(env_paths, abs_path), ret |-> TRUE]
    ELSE [paths |-> env_paths, ret |-> FALSE]

\* faulty variant: the hole is filled with the last element
remove_path_swap(env_paths, abs_path) ==
    IF InSeq(abs_path, env_paths)
    THEN LET i == CHOOSE k \in DOMAIN env_paths : env_paths[k] = abs_path
             n == Len(env_paths)
         IN [paths |-> SubSeq([env_paths EXCEPT ![i] = env_paths[n]], 1, n - 1),
             ret |-> TRUE]
    ELSE [paths |-> env_paths, ret |-> FALSE]

\* Env.remove_path
remove_path(env_paths, abs_path) ==
    IF InSeq(abs_path, env_paths)
    THEN [paths |-> ListRemove(env_paths, abs_path), ret |-> TRUE]
    ELSE [paths |-> env_paths, ret |-> FALSE]

\* faulty variant: the path goes to base whatever the pointer says
addpath_tobase(st, path) ==
    IF ~PathExists(path) THEN Out(st, "Exit1", FALSE, <<>>)
    ELSE LET f == st.files["base"]
         IN IF GetPathsRaises(f) THEN Out(st, "AttributeError", FALSE, <<>>)
            ELSE LET abs_path == Resolve(path)
                     r == add_path(EnvLoadPaths(f), abs_path)
                 IN IF ~r.ret THEN Out(st, "ok", FALSE, <<>>)
                    ELSE Out([st EXCEPT !.files =
                                  EnvSave(st.files, "base", r.paths)],
                             "ok", TRUE, <<W_save("base")>>)

addpath_(st, path) ==
    IF ~PathExists(path) THEN Out(st, "Exit1", FALSE, <<>>)
    ELSE LET cur == get_current_env_name(st.config)
             f == st.files[cur]
         IN IF GetPathsRaises(f) THEN Out(st, "AttributeError", FALSE, <<>>)
            ELSE LET abs_path == Resolve(path)
                     r == add_path(EnvLoadPaths(f), abs_path)
                 IN IF ~r.ret THEN Out(st, "ok", FALSE, <<>>)
                    ELSE LET st1 == [st EXCEPT !.files = EnvSave(st.files, cur, r.paths)]
                         IN IF InSeq(abs_path, Split(st.PATH))
                            THEN Out(st1, "ok", TRUE, <<W_save(cur)>>)
                            ELSE Out([st1 EXCEPT !.PATH = abs_path \o <<SEP>> \o st.PATH],
                                     "ok", TRUE, <<W_save(cur), W_environ>>)

removepath_(st, path) ==
    LET cur == get_current_env_name(st.config)
        f == st.files[cur]
    IN IF GetPathsRaises(f) THEN Out(st, "AttributeError", FALSE, <<>>)
       ELSE LET abs_path == Resolve(path)
                r == remove_path(EnvLoadPaths(f), abs_path)
            IN IF ~r.ret THEN Out(st, "ok", FALSE, <<>>)
               ELSE LET st1 == [st EXCEPT !.files = EnvSave(st.files, cur, r.paths)]
                        current_path == Split(st.PATH)
                    IN IF InSeq(abs_path, current_path)
                       THEN Out([st1 EXCEPT !.PATH = Join(ListRemove(current_path, abs_path))],
                                "ok", TRUE, <<W_save(cur), W_environ>>)
                       ELSE Out(st1, "ok", TRUE, <<W_save(cur)>>)

\* faulty variant: the record is removed without switching to base
delete_noswitch(st, name) ==
    IF name = "base" THEN Out(st, "Exit1", FALSE, <<>>)
    ELSE IF ~Exists(st.files[name]) THEN Out(st, "Exit1", FALSE, <<>>)
    ELSE Out([st EXCEPT !.files = [st.files EXCEPT ![name] = Absent]],
             "ok", FALSE, <<W_unlink(name)>>)

delete_(st, name) ==
    IF name = "base" THEN Out(st, "Exit1", FALSE, <<>>)
    ELSE IF ~Exists(st.files[name]) THEN Out(st, "Exit1", FALSE, <<>>)
    ELSE LET a == IF get_current_env_name(st.config) = name
                  THEN activate_(st, "base", OptionInfo)
                  ELSE Out(st, "ok", FALSE, <<>>)
         IN IF a.res # "ok" THEN a
            ELSE Out([files |-> [a.files EXCEPT ![name] = Absent],
                      config |-> a.config, PATH |-> a.PATH],
                     "ok", FALSE, Append(a.eff, W_unlink(name)))

\* list: the keys whose line carries "(active)".  The base line is printed
\* without reading a record; every other line compares the record's own
\* name field with the pointer; a file that is not a record with a name
\* gets an error line.
list_active(fs, c) ==
    LET current_env == get_current_env_name(c)
    IN {n \in DOMAIN fs :
            IF n = "base" THEN current_env = "base"
            ELSE fs[n].kind = "rec" /\ fs[n].name = current_env}

\* for path in env.env_paths: if path in current_path: current_path.remove(path)
RECURSIVE RemoveEach(_, _)
RemoveEach(paths, current_path) ==
    IF paths = <<>> THEN current_path
    ELSE RemoveEach(Tail(paths), ListRemove(current_path, Head(paths)))

deactivate_(st, name) ==
    IF GetPathsRaises(st.files[name]) THEN Out(st, "AttributeError", FALSE, <<>>)
    ELSE Out([st EXCEPT !.PATH = Join(RemoveEach(EnvLoadPaths(st.files[name]),
                                                 Split(st.PATH)))],
             "ok", FALSE, <<W_environ>>)

\* the read of CONFIG_FILE in the __main__ block: open() stands outside the
\* try, and only JSONDecodeError is caught
main_read(c) ==
    CASE c.kind = "str" -> [exc |-> "none", current_env |-> c.val]
      [] c.kind = "absent" -> [exc |-> "none", current_env |-> "base"]
      [] c.kind = "unreadable" -> [exc |-> "OSError", current_env |-> ""]
      [] c.kind \in {"empty", "garbage"} -> [exc |-> "none", current_env |-> "base"]

\* the __main__ block up to app()
main_(st) ==
    LET r == main_read(st.config)
    IN IF r.exc # "none" THEN Out(st, r.exc, FALSE, <<>>)
       ELSE LET st1 == IF st.config.kind = "absent"
                       THEN [st EXCEPT !.config = StrJson("base")]
                       ELSE st
                eff1 == IF st.config.kind = "absent" THEN <<W_ptr("base")>> ELSE <<>>
            IN IF GetPathsRaises(st.files["base"])
               THEN Out(st1, "AttributeError", FALSE, eff1)
               ELSE IF Exists(st.files["base"]) THEN Out(st1, "ok", FALSE, eff1)
               ELSE Out([st1 EXCEPT !.files = EnvSave(st.files, "base", <<>>)],
                        "ok", FALSE, Append(eff1, W_save("base")))

(***************************************************************************)
(* State machine                                                           *)
(***************************************************************************)
Cmd(op, a1, a2, o) ==
    [op |-> op, a1 |-> a1, a2 |-> a2, res |-> o.res, ret |-> o.ret, eff |-> o.eff]

NoCmd == [op |-> "none", a1 |-> "", a2 |-> "", res |-> "ok", ret |-> FALSE, eff |-> <<>>]

\* the PATH the process inherits
InitPATHs == {<<>>, Join(<<PBIN>>), Join(<<PA, PBIN>>)}

\* the registry after the __main__ block ran on an empty directory
Init ==
    /\ files = [n \in Names |-> IF n = "base" THEN Rec("base", <<>>) ELSE Absent]
    /\ config = StrJson("base")
    /\ PATH \in InitPATHs
    /\ last = NoCmd
    /\ prev = NoCmd
    /\ pre = St(files, config, PATH)
    /\ steps = 0
    /\ edits = 0
    /\ activated = FALSE
    /\ ENVWRAP_CURRENT = ""

Run(op, a1, a2, o) ==
    /\ steps < MaxSteps
    /\ files' = o.files
    /\ config' = o.config
    /\ PATH' = o.PATH
    /\ last' = Cmd(op, a1, a2, o)
    /\ prev' = last
    /\ pre' = St(files, config, PATH)
    /\ steps' = steps + 1
    /\ activated' = (activated \/ (op = "activate" /\ o.res = "ok"))
    /\ UNCHANGED <<edits, ENVWRAP_CURRENT>>

Cur == St(files, config, PATH)

Create(n) == Run("create", n, "", create_(Cur, n))

Clone(s, t) == Run("clone", s, t, clone_(Cur, s, t))

\* the activate command without --export-shell
Activate(n) == Run("activate", n, "", activate_(Cur, n, None))

AddPath(i) == Run("addpath", i, "", addpath_(Cur, i))

RemovePath(i) == Run("removepath", i, "", removepath_(Cur, i))

Reset == Run("reset", "", "", reset_(Cur))

Delete(n) == Run("delete", n, "", delete_(Cur, n))

\* somebody else (an editor, a crashed writer) leaves a record file that is
\* not a record
Tamper(n, k) ==
    /\ steps < MaxSteps
    /\ edits < MaxEdits
    /\ edits' = edits + 1
    /\ files' = [files EXCEPT ![n] = Bad(k)]
    /\ last' = [NoCmd EXCEPT !.op = "tamper", !.a1 = n, !.a2 = k]
    /\ prev' = last
    /\ pre' = St(files, config, PATH)
    /\ steps' = steps + 1
    /\ UNCHANGED <<config, PATH, activated, ENVWRAP_CURRENT>>

\* the activate command with --export-shell, and the shell sourcing the file
\* it wrote
ActivateExport(n) ==
    \E order \in Orders(UnionPathSet(files)) :
        LET o == activate_(Cur, n, ScriptFile)
            script == ExportScript(order, EnvLoadPaths(files[n]), n)
            sh == IF o.res = "ok" THEN Source(script, PATH)
                  ELSE [PATH |-> PATH, ENVWRAP_CURRENT |-> ENVWRAP_CURRENT]
        IN /\ steps < MaxSteps
           /\ files' = o.files
           /\ config' = o.config
           /\ PATH' = sh.PATH
           /\ ENVWRAP_CURRENT' = sh.ENVWRAP_CURRENT
           /\ last' = Cmd("activate_export", n, "", o)
           /\ prev' = last
           /\ pre' = St(files, config, PATH)
           /\ steps' = steps + 1
           /\ UNCHANGED <<edits, activated>>

Deactivate(n) == Run("deactivate", n, "", deactivate_(Cur, n))

\* somebody else leaves an active-pointer file that is not a JSON string,
\* or removes it
TamperPtr(k) ==
    /\ steps < MaxSteps
    /\ edits < MaxEdits
    /\ edits' = edits + 1
    /\ config' = BadPtr(k)
    /\ last' = [NoCmd EXCEPT !.op = "tamper_ptr", !.a1 = k]
    /\ prev' = last
    /\ pre' = St(files, config, PATH)
    /\ steps' = steps + 1
    /\ UNCHANGED <<files, PATH, activated, ENVWRAP_CURRENT>>

\* a process starts: the __main__ block runs before the command
Main == Run("main", "", "", main_(Cur))

Next ==
    \/ \E n \in Names : Create(n)
    \/ \E s, t \in Names : Clone(s, t)
    \/ \E n \in Names : Activate(n)
    \/ \E i \in Inputs : AddPath(i)
    \/ \E i \in Inputs : RemovePath(i)
    \/ Reset
    \/ \E n \in Names : Delete(n)

Spec == Init /\ [][Next]_vars

\* an inherited PATH that holds none of the paths an environment may hold
CleanPATHs == {<<>>, Join(<<PBIN>>)}

InitClean == Init /\ PATH \in CleanPATHs

SpecClean == InitClean /\ [][Next]_vars

NextExt ==
    \/ Next
    \/ Main
    \/ \E n \in Names, k \in BadKinds : Tamper(n, k)
    \/ \E k \in PtrBadKinds : TamperPtr(k)

\* the shell channel: a shell whose PATH holds entries that contain, or
\* repeat, a registered path
ShPATHs == {Join(<<PBIN>>), Join(<<PUA, PBIN>>), Join(<<PA, PBIN, PA>>)}

InitSh ==
    /\ files = [n \in Names |-> IF n = "base" THEN Rec("base", <<>>) ELSE Absent]
    /\ config = StrJson("base")
    /\ PATH \in ShPATHs
    /\ last = NoCmd
    /\ prev = NoCmd
    /\ pre = St(files, config, PATH)
    /\ steps = 0
    /\ edits = 0
    /\ activated = FALSE
    /\ ENVWRAP_CURRENT = ""

\* a shell session: environments are created and filled, then switched
NextSh ==
    \/ \E n \in Names : Create(n)
    \/ \E i \in Inputs : AddPath(i)
    \/ \E n \in Names : Activate(n)
    \/ \E n \in Names : ActivateExport(n)
    \/ \E n \in Names : Deactivate(n)

SpecSh == InitSh /\ [][NextSh]_vars

InitExt == Init /\ PATH = Join(<<PA, PBIN>>)

SpecExt == InitExt /\ [][NextExt]_vars

TypeOK ==
    /\ DOMAIN files = Names
    /\ config.kind \in {"str"} \cup PtrBadKinds
    /\ steps \in 0..MaxSteps
    /\ edits \in 0..MaxEdits

(***************************************************************************)
(* Properties                                                              *)
(***************************************************************************)
\* the stored paths of environment n in registry fs
PathsOf(fs, n) == EnvLoadPaths(fs[n])

\* the ambient path list
Ambient == Split(PATH)

Ran(c, op) == c.op = op /\ c.res = "ok"

Unchanged == files = pre.files /\ config = pre.config /\ PATH = pre.PATH

\* C1: after activate(E1) immediately followed by activate(E2), both
\* in-process, the path list holds no path of E1 that is not a path of E2.
C1_NoLeakConsecutive ==
    (Ran(prev, "activate") /\ Ran(last, "activate")) =>
        \A p \in Range(PathsOf(files, prev.a1)) :
            InSeq(p, Ambient) => InSeq(p, PathsOf(files, last.a1))

C1_Witness ==
    /\ Ran(prev, "activate") /\ Ran(last, "activate")
    /\ prev.a1 # last.a1
    /\ \E p \in Range(PathsOf(files, prev.a1)) :
           /\ ~InSeq(p, PathsOf(files, last.a1))
           /\ InSeq(p, Split(pre.PATH))

\* C2: delete(name) of the active non-base environment completes with the
\* pointer on "base" and name's record removed, the pointer having been
\* switched before the record was removed.
C2_DeleteActive ==
    (/\ last.op = "delete"
     /\ last.a1 # "base"
     /\ Exists(pre.files[last.a1])
     /\ get_current_env_name(pre.config) = last.a1) =>
        /\ last.res = "ok"
        /\ get_current_env_name(config) = "base"
        /\ ~Exists(files[last.a1])
        /\ \E i, j \in DOMAIN last.eff :
               /\ i < j
               /\ last.eff[i] = W_ptr("base")
               /\ last.eff[j] = W_unlink(last.a1)

\* C3: the active pointer names "base" or an environment whose record exists.
C3_ActivePointer ==
    LET a == get_current_env_name(config)
    IN a = "base" \/ Exists(files[a])

C3_Witness ==
    /\ last.op = "delete"
    /\ get_current_env_name(pre.config) = last.a1
    /\ get_current_env_name(config) = "base"

\* C4: activate(T) right after activate(T) leaves the path list exactly as
\* the first activation left it.
C4_Idempotent ==
    (Ran(prev, "activate") /\ Ran(last, "activate") /\ prev.a1 = last.a1) =>
        PATH = pre.PATH /\ Ambient = Split(pre.PATH)

C4_Witness ==
    /\ Ran(prev, "activate") /\ Ran(last, "activate") /\ prev.a1 = last.a1
    /\ Len(PathsOf(files, last.a1)) >= 2
    /\ \E n \in Names \ {last.a1} : PathsOf(files, n) # <<>>

\* C5: after a successful in-process activate(T) the path list holds every
\* path of T and no path of another environment's record that is not also
\* a path of T.
C5_PostActivate ==
    Ran(last, "activate") =>
        /\ \A p \in Range(PathsOf(files, last.a1)) : InSeq(p, Ambient)
        /\ \A n \in Names \ {last.a1} :
               \A p \in Range(PathsOf(files, n)) :
                   InSeq(p, Ambient) => InSeq(p, PathsOf(files, last.a1))
        /\ (last.a1 = "base" /\ PathsOf(files, "base") = <<>>) =>
               \A n \in Names : \A p \in Range(PathsOf(files, n)) :
                   ~InSeq(p, Ambient)

C5_Witness ==
    /\ Ran(last, "activate")
    /\ PathsOf(files, last.a1) # <<>>
    /\ \E n \in Names \ {last.a1} :
           \E p \in Range(PathsOf(files, n)) :
               /\ ~InSeq(p, PathsOf(files, last.a1))
               /\ InSeq(p, Split(pre.PATH))

\* C6: create("base"), clone(s, "base") and delete("base") fail and change
\* no record, not the pointer and not the path list.
C6_ReservedName ==
    (\/ last.op = "create" /\ last.a1 = "base"
     \/ last.op = "clone" /\ last.a2 = "base"
     \/ last.op = "delete" /\ last.a1 = "base") =>
        last.res = "Exit1" /\ last.eff = <<>> /\ Unchanged

C6_Witness ==
    /\ last.op = "clone" /\ last.a2 = "base"
    /\ last.a1 # "base"
    /\ Exists(pre.files[last.a1])
    /\ PathsOf(pre.files, last.a1) # PathsOf(pre.files, "base")

\* C7: activate(n) of an unknown n # "base", clone(s, t) of an unknown s
\* and delete(n) of an unknown n fail and change nothing.
C7_NotFound ==
    (\/ last.op = "activate" /\ last.a1 # "base" /\ ~Exists(pre.files[last.a1])
     \/ last.op = "clone" /\ ~Exists(pre.files[last.a1])
     \/ last.op = "delete" /\ ~Exists(pre.files[last.a1])) =>
        last.res = "Exit1" /\ last.eff = <<>> /\ Unchanged

C7_Witness ==
    /\ last.op = "activate" /\ last.a1 # "base" /\ ~Exists(pre.files[last.a1])
    /\ get_current_env_name(pre.config) # last.a1
    /\ get_current_env_name(pre.config) # "base"

\* C8: activate(T) of a valid target succeeds, sets the pointer to T and
\* applies the transition computed from the readable records, whatever the
\* content of another environment's record file.
C8_FailSoftUnion ==
    (/\ last.op = "activate"
     /\ pre.files[last.a1].kind = "rec"
     /\ \E n \in Names \ {last.a1} : pre.files[n].kind \in BadKinds) =>
        /\ last.res = "ok"
        /\ get_current_env_name(config) = last.a1
        /\ PATH = NewPATH(pre.PATH, UnionPathSet(pre.files),
                          PathsOf(pre.files, last.a1))

\* C9: no record holds a path twice; addPath appends the new path at the
\* end; removePath keeps the order of the paths that remain.
C9_NoDuplicates ==
    /\ \A n \in Names : NoDup(PathsOf(files, n))
    /\ (last.op = "addpath" /\ last.ret) =>
           LET cur == get_current_env_name(pre.config)
           IN PathsOf(files, cur) =
                  Append(PathsOf(pre.files, cur), Resolve(last.a1))
    /\ (last.op = "removepath" /\ last.ret) =>
           LET cur == get_current_env_name(pre.config)
           IN PathsOf(files, cur) =
                  FilterOut(PathsOf(pre.files, cur), {Resolve(last.a1)})

C9_Witness ==
    /\ last.op = "removepath" /\ last.ret
    /\ LET old == PathsOf(pre.files, get_current_env_name(pre.config))
       IN Len(old) = 3 /\ old[1] = Resolve(last.a1)

\* C10: addPath of a path not yet stored returns true; addPath called again
\* right after it with an input that resolves to the same path returns
\* false and writes nothing.
C10_DuplicateSuppression ==
    /\ Ran(last, "addpath") =>
           (last.ret <=>
                ~InSeq(Resolve(last.a1),
                       PathsOf(pre.files, get_current_env_name(pre.config))))
    /\ (/\ Ran(prev, "addpath") /\ Ran(last, "addpath")
        /\ Resolve(prev.a1) = Resolve(last.a1)) =>
           /\ ~last.ret
           /\ last.eff = <<>>
           /\ files = pre.files

C10_Witness ==
    /\ Ran(prev, "addpath") /\ Ran(last, "addpath")
    /\ prev.a1 # last.a1
    /\ Resolve(prev.a1) = Resolve(last.a1)
    /\ prev.ret /\ ~last.ret

\* C11: after clone(source, target) the target stores the source's paths
\* as they were, and addpath, removepath and reset applied to the source
\* afterwards leave the target's stored paths as they are.
C11_CloneIndependence ==
    /\ Ran(last, "clone") =>
           PathsOf(files, last.a2) = PathsOf(pre.files, last.a1)
    /\ (last.op \in {"addpath", "removepath"}) =>
           \A t \in Names \ {get_current_env_name(pre.config)} :
               files[t] = pre.files[t]
    /\ (last.op = "reset") =>
           \A t \in Names \ {"base"} : files[t] = pre.files[t]

C11_Witness ==
    /\ Ran(prev, "clone") /\ prev.a1 # prev.a2
    /\ last.op \in {"addpath", "removepath"} /\ last.ret
    /\ get_current_env_name(pre.config) = prev.a1
    /\ PathsOf(files, prev.a2) = PathsOf(pre.files, prev.a1)
    /\ PathsOf(files, prev.a2) # <<>>
    /\ PathsOf(files, prev.a2) # PathsOf(files, prev.a1)

\* C12: create(name) of a name whose record exists fails and changes
\* nothing; create(name) of a non-base name without a record leaves a record
\* with that name and no paths.
C12_AlreadyExists ==
    /\ (last.op = "create" /\ Exists(pre.files[last.a1])) =>
           last.res = "Exit1" /\ last.eff = <<>> /\ Unchanged
    /\ (last.op = "create" /\ last.a1 # "base" /\ ~Exists(pre.files[last.a1])) =>
           /\ last.res = "ok"
           /\ files = [pre.files EXCEPT ![last.a1] = Rec(last.a1, <<>>)]
           /\ config = pre.config /\ PATH = pre.PATH

C12_Witness ==
    /\ last.op = "create" /\ last.a1 # "base"
    /\ Exists(pre.files[last.a1])
    /\ PathsOf(pre.files, last.a1) # <<>>

\* C18: addpath and removepath change at most the record of the environment
\* the pointer names; the pointer and every other record stay as they are,
\* whatever the call returns.
C18_FrameAddRemove ==
    (last.op \in {"addpath", "removepath"}) =>
        /\ config = pre.config
        /\ \A n \in Names :
               files[n] # pre.files[n] => pre.config = StrJson(n)

C18_Witness ==
    /\ last.op = "addpath" /\ last.ret
    /\ pre.config # StrJson("base")
    /\ \E n \in Names : files[n] # pre.files[n]
    /\ Exists(files["base"])

\* C20: every record's name field equals the key it is stored under, so
\* the listing marks exactly the environment the pointer names.
C20_NameEqualsKey ==
    /\ \A n \in Names : files[n].kind = "rec" => files[n].name = n
    /\ list_active(files, config) = {get_current_env_name(config)}

C20_Witness ==
    /\ Ran(last, "clone") /\ last.a1 # last.a2
    /\ config = StrJson(last.a2)
    /\ Exists(pre.files[last.a2])

RECURSIVE Reverse(_)
Reverse(s) == IF s = <<>> THEN <<>> ELSE Append(Reverse(Tail(s)), Head(s))

\* the Union Path Set the last command found
PreUnion == UnionPathSet(pre.files)

\* C14 as stated: after a successful in-process activate(T) with stored
\* paths [p1, ..., pn] the path list is [p1, ..., pn] followed by the former
\* path list without the entries of the Union Path Set.
C14_PrependOrder ==
    Ran(last, "activate") =>
        PATH = Join(PathsOf(pre.files, last.a1)
                    \o FilterOut(Split(pre.PATH), PreUnion))

\* C14 as amended: the path list is [pn, ..., p1], the stored paths in
\* reverse order, followed by the former path list without the entries of
\* the Union Path Set, the survivors in their former order.
C14_PrependReversed ==
    Ran(last, "activate") =>
        PATH = Join(Reverse(PathsOf(pre.files, last.a1))
                    \o FilterOut(Split(pre.PATH), PreUnion))

C14_Witness ==
    /\ Ran(last, "activate")
    /\ Len(PathsOf(pre.files, last.a1)) >= 2
    /\ FilterOut(Split(pre.PATH), PreUnion) # Split(pre.PATH)
    /\ FilterOut(Split(pre.PATH), PreUnion) # <<>>

\* C16: once an in-process activation has succeeded, every path stored in
\* the record of the active environment is an entry of the path list.
C16_ActivePathsApplied ==
    activated =>
        \A p \in Range(PathsOf(files, get_current_env_name(config))) :
            InSeq(p, Ambient)

\* the paths an environment may hold
EnvPaths == {Resolve(i) : i \in Inputs}

\* C19: the inherited path list holding no environment path, every such
\* path in the list was put there on behalf of an environment; right after
\* a successful in-process activate(T) the list holds none but T's.
C19_NoLeakAnyHistory ==
    Ran(last, "activate") =>
        \A p \in EnvPaths :
            InSeq(p, Ambient) => InSeq(p, PathsOf(files, last.a1))

\* C13: whatever the pointer storage holds (nothing, no file, garbage, an
\* unreadable file), reading the pointer yields "base" and does not raise,
\* in get_current_env_name and in the read of the __main__ block.
C13_PointerReadNeverFails ==
    /\ config.kind \in PtrBadKinds => get_current_env_name(config) = "base"
    /\ (last.op = "main" /\ pre.config.kind \in PtrBadKinds) =>
           /\ main_read(pre.config).exc = "none"
           /\ main_read(pre.config).current_env = "base"
           /\ last.res # "OSError"

\* C15: sourcing the exported script gives the path list the in-process
\* channel computes from the same registry, target and path list, and sets
\* the marker to the target, which is the persisted pointer.
C15_ChannelEquivalence ==
    (last.op = "activate_export" /\ last.res = "ok") =>
        /\ PATH = NewPATH(pre.PATH, UnionPathSet(pre.files),
                          EnvLoadPaths(pre.files[last.a1]))
        /\ ENVWRAP_CURRENT = last.a1
        /\ get_current_env_name(config) = last.a1

\* C17: after deactivate(name) the path list holds no path of name's record,
\* the other entries keep their order, pointer and records are unchanged.
C17_DeactivateStrips ==
    (last.op = "deactivate" /\ last.res = "ok") =>
        LET P == Range(EnvLoadPaths(pre.files[last.a1]))
        IN /\ \A p \in P : ~InSeq(p, Split(PATH))
           /\ FilterOut(Split(PATH), P) = FilterOut(Split(pre.PATH), P)
           /\ config = pre.config
           /\ files = pre.files

====
